---- MODULE Spec2Model ----
(***************************************************************************)
(* Model of deeplabcut/generate_training_dataset/metadata.py: the shuffle   *)
(* registry (TrainingDatasetMetadata), its records (ShuffleMetadata), the   *)
(* data splits (DataSplit) and the engine resolution (get_shuffle_engine).  *)
(*                                                                          *)
(* Train fractions are floats in the source; they are modelled as integers  *)
(* in thousandths (0.6 is 600, 0.605 is 605), so int(100 * f) is f \div 10. *)
(* An optional value (split: DataSplit | None) is a sequence of length 0    *)
(* or 1.  A function that can raise returns [err, val]: err = "" when it    *)
(* returns val, and the name of the failure otherwise.                      *)
(***************************************************************************)
EXTENDS Integers, Sequences, FiniteSets, TLC

\* ---------------------------------------------------------------- bounds
\* shuffle indices are 0..MaxIndex
MaxIndex == 1
\* image indices are 0..MaxImage
MaxImage == 1
\* a raw index collection has at most MaxLen elements
MaxLen == 2
\* add is called on registries of fewer than MaxShuffles records, or to
\* replace a record
MaxShuffles == 2
\* the training-set directory holds at most MaxDocs split-source files
MaxDocs == 2
\* a run makes at most MaxCalls calls
MaxCalls == 3

\* ------------------------------------------------- project configuration
\* cfg["TrainingFraction"]: the configured fractions, in configuration order
TrainingFraction == <<605, 600>>

Fractions == {TrainingFraction[i] : i \in 1..Len(TrainingFraction)}

Indices == 0..MaxIndex

Keys == Fractions \X Indices

Engines == {"TF", "PYTORCH"}

Prefixes == {"", "pfx"}

\* ---------------------------------------------------------------- helpers
Ok(v) == [err |-> "", val |-> v]

Raise(e, v) == [err |-> e, val |-> v]

Range(s) == {s[i] : i \in 1..Len(s)}

\* all sequences over S of length at most n
SeqsUpTo(S, n) == UNION {[1..k -> S] : k \in 0..n}

\* (frac1, idx1) < (frac2, idx2), the comparison of Python tuples
KeyLess(f1, i1, f2, i2) == f1 < f2 \/ (f1 = f2 /\ i1 < i2)

\* sorted(list of int): stable insertion of x behind every element <= x
RECURSIVE InsertInt(_, _)
InsertInt(s, x) ==
    IF s = <<>> THEN <<x>>
    ELSE IF x < Head(s) THEN <<x>> \o s
    ELSE <<Head(s)>> \o InsertInt(Tail(s), x)

RECURSIVE sorted(_)
sorted(s) ==
    IF s = <<>> THEN <<>>
    ELSE InsertInt(sorted(SubSeq(s, 1, Len(s) - 1)), s[Len(s)])

\* ----------------------------------------------------------------- Engine
\* Engine.aliases: the serialization aliases, the first one is written
aliases(e) == IF e = "TF" THEN <<"tensorflow", "tf">> ELSE <<"pytorch", "torch">>

\* Engine(alias): the engine an alias names
Engine(a) ==
    IF \E e \in Engines : a \in Range(aliases(e))
    THEN Ok(CHOOSE e \in Engines : a \in Range(aliases(e)))
    ELSE Raise("UnknownEngine", "")

\* -------------------------------------------------------------- DataSplit
\* the comparison of neighbours with <= in place of <
Ascending(idx) == \A i \in 1..(Len(idx) - 1) : idx[i] <= idx[i + 1]

\* np.all(idx[:-1] < idx[1:])
StrictlyAscending(idx) == \A i \in 1..(Len(idx) - 1) : idx[i] < idx[i + 1]

\* DataSplit(train_indices, test_indices) with its __post_init__ check
DataSplit(train_indices, test_indices) ==
    IF StrictlyAscending(train_indices) /\ StrictlyAscending(test_indices)
    THEN Ok(<<[train_indices |-> train_indices, test_indices |-> test_indices]>>)
    ELSE Raise("InvalidSplit", <<>>)

\* the construction without the sort of the raw index collections
UnsortedSplit(train_idx, test_idx) == DataSplit(train_idx, test_idx)

\* DataSplit(tuple(sorted(train)), tuple(sorted(test))): what load_split,
\* create and update_metadata do with the raw index collections
NormalizedSplit(train_idx, test_idx) == DataSplit(sorted(train_idx), sorted(test_idx))

\* -------------------------------------------------------- ShuffleMetadata
ShuffleMetadata(name, train_fraction, index, engine, split) ==
    [name |-> name, train_fraction |-> train_fraction, index |-> index,
     engine |-> engine, split |-> split]

\* f"{prefix}-trainset{int(100 * train_fraction)}shuffle{index}"
ShuffleName(train_fraction, index) == <<train_fraction \div 10, index>>

\* the split-source file of a shuffle (get_data_and_metadata_filenames)
DocPath(train_fraction, index) == <<train_fraction, index>>

\* ShuffleMetadata.load_split; docs maps a path to <<>> (no file) or to
\* <<[train_idx, test_idx, train_frac]>> (the pickled raw index collections
\* and fraction)
load_split(s, docs) ==
    LET doc_path == DocPath(s.train_fraction, s.index) IN
    IF docs[doc_path] = <<>> THEN Raise("SplitFileMissing", <<>>)
    ELSE LET d == docs[doc_path][1]
             sp == NormalizedSplit(d.train_idx, d.test_idx)
         IN IF sp.err # "" THEN Raise(sp.err, <<>>)
            ELSE Ok(<<ShuffleMetadata(s.name, s.train_fraction, s.index,
                                      s.engine, sp.val)>>)

\* ------------------------------------------------ TrainingDatasetMetadata
\* __post_init__: neighbouring records are in strictly ascending
\* (train_fraction, index) order
PostInitOk(shuffles) ==
    \A i \in 1..(Len(shuffles) - 1) :
        KeyLess(shuffles[i].train_fraction, shuffles[i].index,
                shuffles[i + 1].train_fraction, shuffles[i + 1].index)

\* TrainingDatasetMetadata(project_config, shuffles)
TrainingDatasetMetadata(shuffles) ==
    IF PostInitOk(shuffles) THEN Ok(shuffles) ELSE Raise("UnsortedShuffles", <<>>)

\* sorted(shuffles, key=lambda s: (s.train_fraction, s.index)), stable
RECURSIVE InsertShuffle(_, _)
InsertShuffle(ss, x) ==
    IF ss = <<>> THEN <<x>>
    ELSE IF KeyLess(x.train_fraction, x.index, Head(ss).train_fraction, Head(ss).index)
         THEN <<x>> \o ss
         ELSE <<Head(ss)>> \o InsertShuffle(Tail(ss), x)

RECURSIVE SortShuffles(_)
SortShuffles(ss) ==
    IF ss = <<>> THEN <<>>
    ELSE InsertShuffle(SortShuffles(SubSeq(ss, 1, Len(ss) - 1)), ss[Len(ss)])

\* existing_shuffles keeping the record that has the key of shuffle
existing_shuffles_keep_all(shuffles, shuffle) ==
    shuffles

\* the list comprehension of add: the records with another key than shuffle's
existing_shuffles(shuffles, shuffle) ==
    SelectSeq(shuffles, LAMBDA s : s.index # shuffle.index
                                   \/ s.train_fraction # shuffle.train_fraction)

\* add without the sort of the new tuple
add_unsorted(shuffles, shuffle, overwrite) ==
    LET existing_indices ==
            {shuffles[i].index : i \in {j \in 1..Len(shuffles) :
                shuffles[j].train_fraction = shuffle.train_fraction}}
    IN IF shuffle.index \in existing_indices /\ ~overwrite
       THEN Raise("DuplicateShuffle", <<>>)
       ELSE TrainingDatasetMetadata(Append(existing_shuffles(shuffles, shuffle), shuffle))

\* add replacing a record whether or not overwrite is set
add_unchecked(shuffles, shuffle, overwrite) ==
    TrainingDatasetMetadata(
        SortShuffles(Append(existing_shuffles(shuffles, shuffle), shuffle)))

\* TrainingDatasetMetadata.add
add(shuffles, shuffle, overwrite) ==
    LET existing_indices ==
            {shuffles[i].index : i \in {j \in 1..Len(shuffles) :
                shuffles[j].train_fraction = shuffle.train_fraction}}
    IN IF shuffle.index \in existing_indices /\ ~overwrite
       THEN Raise("DuplicateShuffle", <<>>)
       ELSE TrainingDatasetMetadata(
                SortShuffles(Append(existing_shuffles(shuffles, shuffle), shuffle)))

\* list[i] of Python: the 1-based position that the index i reads (a negative
\* index counts from the end), 0 when i is out of range
ListPos(list, i) ==
    IF i >= 0 /\ i < Len(list) THEN i + 1
    ELSE IF i < 0 /\ -i <= Len(list) THEN Len(list) + i + 1
    ELSE 0

\* get matching the shuffle index alone
get_by_index(shuffles, trainset_index, index) ==
    IF ListPos(TrainingFraction, trainset_index) = 0
    THEN Raise("IndexError", <<>>)
    ELSE LET hits == SelectSeq(shuffles, LAMBDA s : s.index = index)
         IN IF hits = <<>> THEN Raise("ShuffleNotFound", <<>>)
            ELSE Ok(<<Head(hits)>>)

\* TrainingDatasetMetadata.get
get(shuffles, trainset_index, index) ==
    IF ListPos(TrainingFraction, trainset_index) = 0
    THEN Raise("IndexError", <<>>)
    ELSE LET train_fraction == TrainingFraction[ListPos(TrainingFraction, trainset_index)]
             hits == SelectSeq(shuffles, LAMBDA s :
                         s.train_fraction = train_fraction /\ s.index = index)
         IN IF hits = <<>> THEN Raise("ShuffleNotFound", <<>>)
            ELSE Ok(<<Head(hits)>>)

\* position of x in the sequence s, 0 when absent (dict.get of save)
IndexIn(s, x) ==
    IF \E i \in 1..Len(s) : s[i] = x
    THEN CHOOSE i \in 1..Len(s) : s[i] = x /\ \A j \in 1..(i - 1) : s[j] # x
    ELSE 0

\* metadata["shuffles"][name] = entry on an insertion-ordered dict: a new
\* name is appended, an existing name keeps its place and gets the new entry
DictSet(d, entry) ==
    IF \E i \in 1..Len(d) : d[i].name = entry.name
    THEN [i \in 1..Len(d) |-> IF d[i].name = entry.name THEN entry ELSE d[i]]
    ELSE Append(d, entry)

\* intern numbering the splits from 0
intern_from_zero(data_splits, split) ==
    IF IndexIn(data_splits, split) = 0 THEN Len(data_splits)
    ELSE IndexIn(data_splits, split) - 1

\* split_index of save: the id data_splits holds for the split, and the
\* next id, len(data_splits) + 1, for a split it does not hold
intern(data_splits, split) ==
    IF IndexIn(data_splits, split) = 0 THEN Len(data_splits) + 1
    ELSE IndexIn(data_splits, split)

\* the loop of save leaving out the records whose split cannot be loaded
RECURSIVE save_loop_skipping(_, _, _, _, _)
save_loop_skipping(shuffles, data_splits, metadata, ids, docs) ==
    IF shuffles = <<>> THEN Ok([doc |-> metadata, ids |-> ids])
    ELSE LET s0 == Head(shuffles)
             ld == IF s0.split = <<>> THEN load_split(s0, docs) ELSE Ok(<<s0>>)
         IN IF ld.err # ""
            THEN save_loop_skipping(Tail(shuffles), data_splits, metadata, ids, docs)
            ELSE LET s == ld.val[1]
                     known == IndexIn(data_splits, s.split[1])
                     split_index == intern(data_splits, s.split[1])
                     data_splits2 == IF known = 0 THEN Append(data_splits, s.split[1])
                                     ELSE data_splits
                     entry == [name |-> s.name,
                               train_fraction |-> s.train_fraction,
                               index |-> s.index,
                               split |-> split_index,
                               engine |-> aliases(s.engine)[1]]
                 IN save_loop_skipping(Tail(shuffles), data_splits2,
                              DictSet(metadata, entry), Append(ids, split_index), docs)

\* the loop of save over self.shuffles; data_splits is the dict from a
\* DataSplit to its id, kept as the sequence of splits in id order; ids
\* records the split_index of each iteration
RECURSIVE save_loop(_, _, _, _, _)
save_loop(shuffles, data_splits, metadata, ids, docs) ==
    IF shuffles = <<>> THEN Ok([doc |-> metadata, ids |-> ids])
    ELSE LET s0 == Head(shuffles)
             ld == IF s0.split = <<>> THEN load_split(s0, docs) ELSE Ok(<<s0>>)
         IN IF ld.err # "" THEN Raise(ld.err, [doc |-> <<>>, ids |-> <<>>])
            ELSE LET s == ld.val[1]
                     known == IndexIn(data_splits, s.split[1])
                     split_index == intern(data_splits, s.split[1])
                     data_splits2 == IF known = 0 THEN Append(data_splits, s.split[1])
                                     ELSE data_splits
                     entry == [name |-> s.name,
                               train_fraction |-> s.train_fraction,
                               index |-> s.index,
                               split |-> split_index,
                               engine |-> aliases(s.engine)[1]]
                 IN save_loop(Tail(shuffles), data_splits2,
                              DictSet(metadata, entry), Append(ids, split_index), docs)

\* TrainingDatasetMetadata.save: the document to write, or the failure
save(shuffles, docs) == save_loop(shuffles, <<>>, <<>>, <<>>, docs)

\* the write of save keeping the entries of the file that the document
\* does not name
write_document_merging(f, doc) ==
    [exists |-> TRUE,
     doc |-> SelectSeq(f.doc, LAMBDA m : \A i \in 1..Len(doc) : doc[i].name # m.name)
                \o doc]

\* the write of save: open(path, "w") truncates the registry file f and
\* the document is dumped into it
write_document(f, doc) == [exists |-> TRUE, doc |-> doc]

\* the loop of load over metadata["shuffles"].items()
RECURSIVE load_loop(_, _, _, _)
load_loop(entries, shuffles, load_splits, docs) ==
    IF entries = <<>> THEN Ok(shuffles)
    ELSE LET m == Head(entries)
             e == Engine(m.engine)
         IN IF e.err # "" THEN Raise(e.err, <<>>)
            ELSE LET s0 == ShuffleMetadata(m.name, m.train_fraction, m.index, e.val, <<>>)
                     ld == IF load_splits THEN load_split(s0, docs) ELSE Ok(<<s0>>)
                 IN IF ld.err # "" THEN Raise(ld.err, <<>>)
                    ELSE load_loop(Tail(entries), Append(shuffles, ld.val[1]),
                                   load_splits, docs)

\* TrainingDatasetMetadata.load; f is the registry file, [exists, doc]
load(f, load_splits, docs) ==
    IF ~f.exists THEN Raise("FileNotFoundError", <<>>)
    ELSE LET r == load_loop(f.doc, <<>>, load_splits, docs)
         IN IF r.err # "" THEN r
            ELSE TrainingDatasetMetadata(SortShuffles(r.val))

\* the loop of create over shuffle_docs, the listing of the split-source
\* files; every migrated shuffle gets Engine.TF
RECURSIVE create_loop(_, _, _)
create_loop(shuffle_docs, shuffles, docs) ==
    IF shuffle_docs = <<>> THEN Ok(shuffles)
    ELSE LET doc_path == Head(shuffle_docs)
             d == docs[doc_path][1]
             index == doc_path[2]
             train_frac == d.train_frac
             sp == NormalizedSplit(d.train_idx, d.test_idx)
         IN IF sp.err # "" THEN Raise(sp.err, <<>>)
            ELSE create_loop(Tail(shuffle_docs),
                     Append(shuffles,
                            ShuffleMetadata(ShuffleName(train_frac, index),
                                            train_frac, index, "TF", sp.val)),
                     docs)

\* create without the sort of the shuffles it read
create_unsorted(shuffle_docs, docs) ==
    LET r == create_loop(shuffle_docs, <<>>, docs)
    IN IF r.err # "" THEN r
       ELSE TrainingDatasetMetadata(r.val)

\* TrainingDatasetMetadata.create; shuffle_docs is trainset_path.iterdir()
\* filtered by the naming pattern, in the order the directory lists them
create(shuffle_docs, docs) ==
    LET r == create_loop(shuffle_docs, <<>>, docs)
    IN IF r.err # "" THEN r
       ELSE TrainingDatasetMetadata(SortShuffles(r.val))

\* -------------------------------------------------------- update_metadata
\* the new_shuffle of update_metadata
new_shuffle(train_fraction, shuffle, engine, train_indices, test_indices) ==
    LET sp == NormalizedSplit(train_indices, test_indices)
    IN IF sp.err # "" THEN Raise(sp.err, <<>>)
       ELSE Ok(<<ShuffleMetadata(ShuffleName(train_fraction, shuffle),
                                 train_fraction, shuffle, engine, sp.val)>>)

\* update_metadata: load with the splits, add the new shuffle, save; val is
\* the registry file after the call
update_metadata(f, docs, train_fraction, shuffle, engine, train_indices, test_indices, overwrite) ==
    LET metadata == load(f, TRUE, docs)
        ns == new_shuffle(train_fraction, shuffle, engine, train_indices, test_indices)
    IN IF metadata.err # "" THEN Raise(metadata.err, f)
       ELSE IF ns.err # "" THEN Raise(ns.err, f)
       ELSE LET added == add(metadata.val, ns.val[1], overwrite)
            IN IF added.err # "" THEN Raise(added.err, f)
               ELSE LET sv == save(added.val, docs)
                    IN IF sv.err # "" THEN Raise(sv.err, f)
                       ELSE Ok(write_document(f, sv.val.doc))

\* ----------------------------------------------------- get_shuffle_engine
\* find_engines_from_model_folders looking under no prefix
find_engines_without_prefix(model_folders, trainingsetindex, shuffle, modelprefix) ==
    {engine \in Engines : <<"", engine>> \in model_folders}

\* find_engines_from_model_folders; model_folders holds <<prefix, engine>>
\* for every model folder of the shuffle that exists
find_engines_from_model_folders(model_folders, trainingsetindex, shuffle, modelprefix) ==
    {engine \in Engines : <<modelprefix, engine>> \in model_folders}

\* the first lines of get_shuffle_engine creating and saving the registry
\* whether or not the registry file exists
bootstrap_always(f, shuffle_docs, docs) ==
    LET metadata == create(shuffle_docs, docs)
    IN IF metadata.err # "" THEN Raise(metadata.err, f)
       ELSE LET sv == save(metadata.val, docs)
            IN IF sv.err # "" THEN Raise(sv.err, f)
               ELSE Ok(write_document(f, sv.val.doc))

\* the first lines of get_shuffle_engine: without a registry file, create
\* the registry from the split-source files and save it
bootstrap(f, shuffle_docs, docs) ==
    IF f.exists THEN Ok(f)
    ELSE LET metadata == create(shuffle_docs, docs)
         IN IF metadata.err # "" THEN Raise(metadata.err, f)
            ELSE LET sv == save(metadata.val, docs)
                 IN IF sv.err # "" THEN Raise(sv.err, f)
                    ELSE Ok(write_document(f, sv.val.doc))

\* get_shuffle_engine returning the engine of the registry when no model
\* folder exists under the prefix
get_shuffle_engine_falling_back(f, docs, model_folders, trainingsetindex, shuffle, modelprefix) ==
    LET metadata == load(f, FALSE, docs) IN
    IF metadata.err # "" THEN Raise(metadata.err, {})
    ELSE LET shuffle_metadata == get(metadata.val, trainingsetindex, shuffle) IN
         IF shuffle_metadata.err # "" THEN Raise(shuffle_metadata.err, {})
         ELSE IF modelprefix # ""
              THEN LET engines == find_engines_from_model_folders(
                                      model_folders, trainingsetindex, shuffle, modelprefix)
                   IN IF engines = {} THEN Ok({shuffle_metadata.val[1].engine})
                      ELSE IF Cardinality(engines) = 1 THEN Ok(engines)
                      ELSE IF shuffle_metadata.val[1].engine \in engines
                           THEN Ok({shuffle_metadata.val[1].engine})
                           ELSE Ok(engines)
              ELSE Ok({shuffle_metadata.val[1].engine})

\* get_shuffle_engine taking any of several engines found, whatever the
\* registry stores
get_shuffle_engine_popping(f, docs, model_folders, trainingsetindex, shuffle, modelprefix) ==
    LET metadata == load(f, FALSE, docs) IN
    IF metadata.err # "" THEN Raise(metadata.err, {})
    ELSE LET shuffle_metadata == get(metadata.val, trainingsetindex, shuffle) IN
         IF shuffle_metadata.err # "" THEN Raise(shuffle_metadata.err, {})
         ELSE IF modelprefix # ""
              THEN LET engines == find_engines_from_model_folders(
                                      model_folders, trainingsetindex, shuffle, modelprefix)
                   IN IF engines = {} THEN Raise("NoEngineFound", {})
                      ELSE Ok(engines)
              ELSE Ok({shuffle_metadata.val[1].engine})

\* get_shuffle_engine probing the model folders under the empty prefix too
get_shuffle_engine_probing(f, docs, model_folders, trainingsetindex, shuffle, modelprefix) ==
    LET metadata == load(f, FALSE, docs) IN
    IF metadata.err # "" THEN Raise(metadata.err, {})
    ELSE LET shuffle_metadata == get(metadata.val, trainingsetindex, shuffle) IN
         IF shuffle_metadata.err # "" THEN Raise(shuffle_metadata.err, {})
         ELSE LET engines == find_engines_from_model_folders(
                                 model_folders, trainingsetindex, shuffle, modelprefix)
              IN IF engines = {} THEN Raise("NoEngineFound", {})
                 ELSE IF Cardinality(engines) = 1 THEN Ok(engines)
                 ELSE IF shuffle_metadata.val[1].engine \in engines
                      THEN Ok({shuffle_metadata.val[1].engine})
                      ELSE Ok(engines)

\* the engines get_shuffle_engine can return on the registry file f, or its
\* failure; engines.pop() on a set of several engines gives any of them
get_shuffle_engine(f, docs, model_folders, trainingsetindex, shuffle, modelprefix) ==
    LET metadata == load(f, FALSE, docs) IN
    IF metadata.err # "" THEN Raise(metadata.err, {})
    ELSE LET shuffle_metadata == get(metadata.val, trainingsetindex, shuffle) IN
         IF shuffle_metadata.err # "" THEN Raise(shuffle_metadata.err, {})
         ELSE IF modelprefix # ""
              THEN LET engines == find_engines_from_model_folders(
                                      model_folders, trainingsetindex, shuffle, modelprefix)
                   IN IF engines = {} THEN Raise("NoEngineFound", {})
                      ELSE IF Cardinality(engines) = 1 THEN Ok(engines)
                      ELSE IF shuffle_metadata.val[1].engine \in engines
                           THEN Ok({shuffle_metadata.val[1].engine})
                           ELSE Ok(engines)
              ELSE Ok({shuffle_metadata.val[1].engine})

\* ------------------------------------------------------------------ state
VARIABLES
    meta,       \* the shuffles of the TrainingDatasetMetadata the caller holds
    file,       \* metadata.yaml: [exists, doc], doc the entries in document order
    docs,       \* the split-source files: path -> <<>> or <<content>>
    last,       \* the last call: its name, arguments and outcome
    ncalls,     \* the number of calls made so far
    split_in,   \* the raw index collections Splits are built from
    split_out,  \* the outcome of building a Split from each of them
    procs,      \* the processes that run update_metadata: their position and locals
    log         \* the reads and writes of the registry file by these, in order

vars == <<meta, file, docs, last, ncalls, split_in, split_out, procs, log>>

\* every call is one more call of the run; a call that left the registry,
\* the registry file and the split-source files as they were (last.idle) ends
\* the run, as what follows it can follow the state before it as well
CanCall == ncalls < MaxCalls /\ ~last.idle

Called == CanCall /\ ncalls' = ncalls + 1

NoFile == [exists |-> FALSE, doc |-> <<>>]

NoDocs == [p \in Keys |-> <<>>]

\* raw index collections the callers pass and the split-source files hold:
\* an unordered one, an ordered one and one with a repeated index
RawSplits ==
    { [train_idx |-> <<MaxImage, 0>>, test_idx |-> <<>>],
      [train_idx |-> <<0>>, test_idx |-> <<MaxImage>>],
      [train_idx |-> <<0, 0>>, test_idx |-> <<MaxImage>>] }

\* the engine and the split of the records handed to add: a split built
\* from raw index collections, or none
RecordOptions ==
    { <<"TF", NormalizedSplit(<<MaxImage, 0>>, <<>>).val>>,
      <<"PYTORCH", NormalizedSplit(<<MaxImage, 0>>, <<>>).val>>,
      <<"PYTORCH", NormalizedSplit(<<0>>, <<MaxImage>>).val>>,
      <<"PYTORCH", <<>>>> }

\* the records handed to add, named as update_metadata names them
Shuffles ==
    {ShuffleMetadata(ShuffleName(k[1], k[2]), k[1], k[2], o[1], o[2]) :
        k \in Keys, o \in RecordOptions}

\* trainset_index arguments: the slots of TrainingFraction, -1, and one
\* past the end
Slots == -1..Len(TrainingFraction)

NoCall ==
    [op |-> "init", err |-> "", frac |-> 0, slot |-> 0, index |-> 0,
     flag |-> FALSE, rec |-> <<>>, ids |-> <<>>, prefix |-> "",
     model_folders |-> {}, engine |-> "", self |-> <<>>, listing |-> <<>>,
     idle |-> FALSE]

HasKey(shuffles, frac, index) ==
    \E i \in 1..Len(shuffles) :
        shuffles[i].train_fraction = frac /\ shuffles[i].index = index

Init ==
    /\ meta = <<>>
    /\ file = NoFile
    /\ docs = NoDocs
    /\ last = NoCall
    /\ ncalls = 0
    /\ split_in = <<>>
    /\ split_out = <<>>
    /\ procs = <<>>
    /\ log = <<>>

\* meta = meta.add(shuffle, overwrite)
Add(shuffle, overwrite) ==
    /\ Called
    /\ Len(meta) < MaxShuffles \/ HasKey(meta, shuffle.train_fraction, shuffle.index)
    /\ LET r == add(meta, shuffle, overwrite) IN
        /\ meta' = IF r.err = "" THEN r.val ELSE meta
        /\ last' = [NoCall EXCEPT !.op = "add", !.err = r.err,
                                  !.frac = shuffle.train_fraction,
                                  !.index = shuffle.index,
                                  !.flag = overwrite, !.rec = <<shuffle>>,
                                  !.self = meta, !.idle = (r.err # "")]
    /\ UNCHANGED <<file, docs, split_in, split_out, procs, log>>

\* meta.get(trainset_index, index)
Get(trainset_index, index) ==
    /\ Called
    /\ LET r == get(meta, trainset_index, index) IN
        last' = [NoCall EXCEPT !.op = "get", !.err = r.err, !.slot = trainset_index,
                               !.index = index, !.rec = r.val, !.idle = TRUE]
    /\ UNCHANGED <<meta, file, docs, split_in, split_out, procs, log>>

\* meta.save()
Save ==
    /\ Called
    /\ LET r == save(meta, docs) IN
        /\ file' = IF r.err = "" THEN write_document(file, r.val.doc) ELSE file
        /\ last' = [NoCall EXCEPT !.op = "save", !.err = r.err, !.ids = r.val.ids,
                                  !.idle = (r.err # "")]
    /\ UNCHANGED <<meta, docs, split_in, split_out, procs, log>>

\* meta = TrainingDatasetMetadata.load(cfg, load_splits)
Load(load_splits) ==
    /\ Called
    /\ LET r == load(file, load_splits, docs) IN
        /\ meta' = IF r.err = "" THEN r.val ELSE meta
        /\ last' = [NoCall EXCEPT !.op = "load", !.err = r.err, !.flag = load_splits,
                                  !.idle = (r.err # "")]
    /\ UNCHANGED <<file, docs, split_in, split_out, procs, log>>

ExistingDocs(d) == {p \in Keys : d[p] # <<>>}

\* the orders in which the directory can list the files of the set P
Listings(P) == {l \in [1..Cardinality(P) -> P] : Range(l) = P}

\* meta = TrainingDatasetMetadata.create(cfg)
Create(listing) ==
    /\ Called
    /\ LET r == create(listing, docs) IN
        /\ meta' = IF r.err = "" THEN r.val ELSE meta
        /\ last' = [NoCall EXCEPT !.op = "create", !.err = r.err,
                                  !.listing = listing, !.idle = (r.err # "")]
    /\ UNCHANGED <<file, docs, split_in, split_out, procs, log>>

\* the training-set creation writes the split-source file of a shuffle
WriteDoc(p, raw) ==
    /\ Called
    /\ docs[p] # <<>> \/ Cardinality(ExistingDocs(docs)) < MaxDocs
    /\ docs' = [docs EXCEPT ![p] = <<[train_idx |-> raw.train_idx,
                                      test_idx |-> raw.test_idx,
                                      train_frac |-> p[1]]>>]
    /\ last' = [NoCall EXCEPT !.op = "env"]
    /\ UNCHANGED <<meta, file, split_in, split_out, procs, log>>

\* the user deletes the split-source file of a shuffle
DeleteDoc(p) ==
    /\ Called
    /\ docs[p] # <<>>
    /\ docs' = [docs EXCEPT ![p] = <<>>]
    /\ last' = [NoCall EXCEPT !.op = "env"]
    /\ UNCHANGED <<meta, file, split_in, split_out, procs, log>>

Next ==
    \/ CanCall /\ \E shuffle \in Shuffles, overwrite \in BOOLEAN : Add(shuffle, overwrite)
    \/ CanCall /\ \E t \in Slots, i \in Indices : Get(t, i)
    \/ CanCall /\ Save
    \/ CanCall /\ \E b \in BOOLEAN : Load(b)
    \/ CanCall /\ \E l \in Listings(ExistingDocs(docs)) : Create(l)
    \/ CanCall /\ \E p \in Keys, raw \in RawSplits : WriteDoc(p, raw)
    \/ CanCall /\ \E p \in Keys : DeleteDoc(p)

Spec == Init /\ [][Next]_vars

\* ------------------------------------------------------ save, then load
\* the split-source files as the training-set creation leaves them: one for
\* every shuffle, with the indices in the order they were drawn
CreatedDocs ==
    [p \in Keys |-> <<[train_idx |-> <<MaxImage, 0>>, test_idx |-> <<>>,
                       train_frac |-> p[1]]>>]

\* a registry of one record built by add, with or without the split-source
\* files, and no registry file
InitRoundTrip ==
    /\ meta \in {add(TrainingDatasetMetadata(<<>>).val, s, FALSE).val : s \in Shuffles}
    /\ file = NoFile
    /\ docs \in {NoDocs, CreatedDocs}
    /\ last = NoCall
    /\ ncalls = 0
    /\ split_in = <<>>
    /\ split_out = <<>>
    /\ procs = <<>>
    /\ log = <<>>

NextRoundTrip ==
    \/ CanCall /\ \E shuffle \in Shuffles : Add(shuffle, FALSE)
    \/ CanCall /\ Save
    \/ CanCall /\ \E b \in BOOLEAN : Load(b)

SpecRoundTrip == InitRoundTrip /\ [][NextRoundTrip]_vars

\* ------------------------------------------------- the project-level calls
\* update_metadata(cfg, train_fraction, shuffle, engine, train_indices,
\* test_indices, overwrite)
UpdateMetadata(train_fraction, shuffle, engine, raw, overwrite) ==
    /\ Called
    /\ Len(file.doc) < MaxShuffles
       \/ \E m \in Range(file.doc) : m.train_fraction = train_fraction /\ m.index = shuffle
    /\ LET r == update_metadata(file, docs, train_fraction, shuffle, engine,
                                raw.train_idx, raw.test_idx, overwrite) IN
        /\ file' = r.val
        /\ last' = [NoCall EXCEPT !.op = "update_metadata", !.err = r.err,
                                  !.frac = train_fraction, !.index = shuffle,
                                  !.flag = overwrite, !.engine = engine,
                                  !.idle = (r.err # "")]
    /\ UNCHANGED <<meta, docs, split_in, split_out, procs, log>>

\* the engine and the raw index collections update_metadata is called with
NewShuffleOptions ==
    { <<"PYTORCH", [train_idx |-> <<MaxImage, 0>>, test_idx |-> <<>>]>>,
      <<"TF", [train_idx |-> <<0>>, test_idx |-> <<MaxImage>>]>>,
      <<"PYTORCH", [train_idx |-> <<0, 0>>, test_idx |-> <<MaxImage>>]>> }

\* the model folders of a shuffle that can exist: one per prefix and engine
ModelFolders == Prefixes \X Engines

\* the sets of model folders that exist at a call: those of some engines
\* under the prefix "pfx" and those of the other engines under no prefix
ModelFolderLayouts ==
    {({"pfx"} \X E) \cup ({""} \X (Engines \ E)) : E \in SUBSET Engines}

\* trainingsetindex arguments: the slots of TrainingFraction and one past
\* the end
EngineSlots == 0..Len(TrainingFraction)

\* get_shuffle_engine(cfg, trainingsetindex, shuffle, modelprefix), with the
\* model folders that exist and the order in which the directory lists the
\* split-source files when the registry is created (nothing is listed when
\* the registry file exists)
GetShuffleEngine(trainingsetindex, shuffle, modelprefix, model_folders, shuffle_docs) ==
    /\ Called
    /\ LET b == bootstrap(file, shuffle_docs, docs)
           r == IF b.err # "" THEN Raise(b.err, {})
                ELSE get_shuffle_engine(b.val, docs, model_folders,
                                        trainingsetindex, shuffle, modelprefix)
       IN /\ file' = b.val
          /\ \E e \in (IF r.err = "" THEN r.val ELSE {""}) :
                last' = [NoCall EXCEPT !.op = "get_shuffle_engine", !.err = r.err,
                                       !.slot = trainingsetindex, !.index = shuffle,
                                       !.prefix = modelprefix,
                                       !.model_folders = model_folders,
                                       !.engine = e, !.idle = (b.val = file)]
    /\ UNCHANGED <<meta, docs, split_in, split_out, procs, log>>

NextEngine ==
    \/ CanCall /\ \E f \in Fractions, i \in Indices, o \in NewShuffleOptions,
          overwrite \in BOOLEAN : UpdateMetadata(f, i, o[1], o[2], overwrite)
    \/ CanCall /\ \E t \in EngineSlots, i \in Indices, p \in Prefixes, mf \in ModelFolderLayouts,
          l \in Listings(IF file.exists THEN {} ELSE ExistingDocs(docs)) :
              GetShuffleEngine(t, i, p, mf, l)
    \/ CanCall /\ \E p \in Keys, raw \in RawSplits : WriteDoc(p, raw)
    \/ CanCall /\ \E p \in Keys : DeleteDoc(p)

SpecEngine == Init /\ [][NextEngine]_vars

\* --------------------------------------- saving while split files go away
\* a registry of one record built by add is grown by records that have no
\* split loaded, saved and updated while split-source files are deleted
NextPersist ==
    \/ CanCall /\ \E shuffle \in {s \in Shuffles : s.split = <<>>} : Add(shuffle, FALSE)
    \/ CanCall /\ Save
    \/ CanCall /\ \E f \in Fractions, i \in Indices, o \in NewShuffleOptions :
          UpdateMetadata(f, i, o[1], o[2], FALSE)
    \/ CanCall /\ \E p \in Keys : DeleteDoc(p)

SpecPersist == InitRoundTrip /\ [][NextPersist]_vars

\* ---------------------------------------------------- building the Splits
\* the raw index collections a Split is built from
RawIndexLists == SeqsUpTo(0..MaxImage, MaxLen)

\* the raw test index collections: none, one index, unordered, repeated
RawTestLists == {<<>>, <<0>>, <<MaxImage, 0>>, <<MaxImage, MaxImage>>}

RawInputs == [train_idx : RawIndexLists, test_idx : RawTestLists]

\* the shuffle and the split-source file the builders work on
ProbeFraction == TrainingFraction[1]

ProbeShuffle ==
    ShuffleMetadata(ShuffleName(ProbeFraction, 0), ProbeFraction, 0, "TF", <<>>)

ProbeDocs(raw) ==
    [NoDocs EXCEPT ![DocPath(ProbeFraction, 0)] =
        <<[train_idx |-> raw.train_idx, test_idx |-> raw.test_idx,
           train_frac |-> ProbeFraction]>>]

\* the split of the record a builder returns, or its failure
SplitOfRecord(r) == IF r.err = "" THEN Ok(r.val[1].split) ELSE Raise(r.err, <<>>)

InitSplit ==
    /\ meta = <<>>
    /\ file = NoFile
    /\ docs = NoDocs
    /\ last = NoCall
    /\ ncalls = 0
    /\ split_in \in [1..2 -> RawInputs]
    /\ split_out = <<>>
    /\ procs = <<>>
    /\ log = <<>>

\* DataSplit(train_indices, test_indices) on the raw collections as given
Construct ==
    /\ split_out' = [k \in 1..2 |->
                        DataSplit(split_in[k].train_idx, split_in[k].test_idx)]
    /\ last' = [NoCall EXCEPT !.op = "DataSplit"]
    /\ UNCHANGED <<meta, file, docs, ncalls, split_in, procs, log>>

\* load_split on a split-source file that holds the raw collections
BuildByLoadSplit ==
    /\ split_out' = [k \in 1..2 |->
                        SplitOfRecord(load_split(ProbeShuffle, ProbeDocs(split_in[k])))]
    /\ last' = [NoCall EXCEPT !.op = "load_split"]
    /\ UNCHANGED <<meta, file, docs, ncalls, split_in, procs, log>>

\* create on a directory whose one split-source file holds the raw collections
BuildByCreate ==
    /\ split_out' = [k \in 1..2 |->
                        SplitOfRecord(create(<<DocPath(ProbeFraction, 0)>>,
                                             ProbeDocs(split_in[k])))]
    /\ last' = [NoCall EXCEPT !.op = "create"]
    /\ UNCHANGED <<meta, file, docs, ncalls, split_in, procs, log>>

\* update_metadata called with the raw collections
BuildByUpdateMetadata ==
    /\ split_out' = [k \in 1..2 |->
                        SplitOfRecord(new_shuffle(ProbeFraction, 0, "PYTORCH",
                                                  split_in[k].train_idx,
                                                  split_in[k].test_idx))]
    /\ last' = [NoCall EXCEPT !.op = "update_metadata"]
    /\ UNCHANGED <<meta, file, docs, ncalls, split_in, procs, log>>

NextSplit ==
    \/ Construct
    \/ BuildByLoadSplit
    \/ BuildByCreate
    \/ BuildByUpdateMetadata

SpecSplit == InitSplit /\ [][NextSplit]_vars

\* ------------------------------- two processes that run update_metadata
Processes == 1..2

\* the registry files a project can have: none, that of an empty registry,
\* and that of a registry of one record
RegistryFiles ==
    {NoFile} \cup
    {write_document(NoFile, save(m, CreatedDocs).val.doc) :
        m \in {<<>>} \cup {add(<<>>, s, FALSE).val : s \in Shuffles}}

\* a process about to run update_metadata(cfg, k[1], k[2], o[1], o[2], overwrite)
Process(k, o, overwrite) ==
    [pc |-> "load",
     args |-> [train_fraction |-> k[1], shuffle |-> k[2], engine |-> o[1],
               raw |-> o[2], overwrite |-> overwrite],
     loaded |-> <<>>, metadata |-> <<>>, err |-> ""]

\* two processes called for different (train_fraction, shuffle) on a project
\* that has all its split-source files
InitRace ==
    /\ meta = <<>>
    /\ file \in RegistryFiles
    /\ docs = CreatedDocs
    /\ last = NoCall
    /\ ncalls = 0
    /\ split_in = <<>>
    /\ split_out = <<>>
    /\ \E k1 \in Keys, o1 \in NewShuffleOptions, o2 \in NewShuffleOptions, overwrite \in BOOLEAN :
          \E k2 \in Keys \ {k1} :
              procs = <<Process(k1, o1, overwrite), Process(k2, o2, overwrite)>>
    /\ log = <<>>

\* metadata = TrainingDatasetMetadata.load(cfg, load_splits=True)
LoadStep(p) ==
    /\ procs[p].pc = "load"
    /\ LET r == load(file, TRUE, docs) IN
         procs' = [procs EXCEPT ![p] =
                     IF r.err # "" THEN [@ EXCEPT !.pc = "failed", !.err = r.err]
                     ELSE [@ EXCEPT !.pc = "add", !.loaded = r.val, !.metadata = r.val]]
    /\ log' = Append(log, <<p, "load">>)
    /\ UNCHANGED <<meta, file, docs, last, ncalls, split_in, split_out>>

\* new_shuffle = ShuffleMetadata(...); metadata = metadata.add(new_shuffle, overwrite)
AddStep(p) ==
    /\ procs[p].pc = "add"
    /\ LET a == procs[p].args
           ns == new_shuffle(a.train_fraction, a.shuffle, a.engine,
                             a.raw.train_idx, a.raw.test_idx)
           r == IF ns.err # "" THEN Raise(ns.err, <<>>)
                ELSE add(procs[p].metadata, ns.val[1], a.overwrite)
       IN procs' = [procs EXCEPT ![p] =
                      IF r.err # "" THEN [@ EXCEPT !.pc = "failed", !.err = r.err]
                      ELSE [@ EXCEPT !.pc = "save", !.metadata = r.val]]
    /\ UNCHANGED <<meta, file, docs, last, ncalls, split_in, split_out, log>>

\* metadata.save()
SaveStep(p) ==
    /\ procs[p].pc = "save"
    /\ LET r == save(procs[p].metadata, docs) IN
         /\ file' = IF r.err = "" THEN write_document(file, r.val.doc) ELSE file
         /\ procs' = [procs EXCEPT ![p] =
                        IF r.err # "" THEN [@ EXCEPT !.pc = "failed", !.err = r.err]
                        ELSE [@ EXCEPT !.pc = "done"]]
    /\ log' = Append(log, <<p, "save">>)
    /\ UNCHANGED <<meta, docs, last, ncalls, split_in, split_out>>

NextRace ==
    \/ \E p \in Processes : LoadStep(p)
    \/ \E p \in Processes : AddStep(p)
    \/ \E p \in Processes : SaveStep(p)

SpecRace == InitRace /\ [][NextRace]_vars

\* ----------------------------------------------------------- properties
KeyOf(s) == <<s.train_fraction, s.index>>

\* C1: every registry returned by add, load or create has its records in
\* strictly ascending (train_fraction, index) order, so no two records share
\* a key, and add never builds a registry that its own check rejects.
RegistrySortedUnique ==
    /\ \A i, j \in 1..Len(meta) :
          i < j => KeyLess(meta[i].train_fraction, meta[i].index,
                           meta[j].train_fraction, meta[j].index)
    /\ last.op = "add" => last.err # "UnsortedShuffles"

\* an add has put its record in front of a record the registry held
AddedInFront ==
    /\ last.op = "add" /\ last.err = ""
    /\ Len(meta) = 2 /\ meta[1] = last.rec[1] /\ meta[2] = last.self[1]

\* C2: add without overwrite of a record whose key the registry holds fails
\* with DuplicateShuffle and leaves the registry value and the registry
\* file as they were.
DuplicateRejected ==
    [][(last'.op = "add" /\ ~last'.flag /\ HasKey(meta, last'.frac, last'.index))
        => (last'.err = "DuplicateShuffle" /\ meta' = meta /\ file' = file)]_vars

\* an add was rejected on a registry that was saved before
RejectedAfterSave ==
    /\ last.op = "add" /\ last.err = "DuplicateShuffle"
    /\ file.exists /\ file.doc # <<>>
    /\ HasKey(meta, last.frac, last.index)

\* C3: add with overwrite of a record whose key the registry holds succeeds;
\* the new registry holds the new record as its only record of that key,
\* and the records of the other keys are those of the old registry.
OverwriteReplaces ==
    (last.op = "add" /\ last.flag /\ HasKey(last.self, last.frac, last.index))
    => /\ last.err = ""
       /\ Cardinality({i \in 1..Len(meta) : KeyOf(meta[i]) = <<last.frac, last.index>>}) = 1
       /\ \A i \in 1..Len(meta) :
             KeyOf(meta[i]) = <<last.frac, last.index>> => meta[i] = last.rec[1]
       /\ {s \in Range(meta) : KeyOf(s) # <<last.frac, last.index>>}
            = {s \in Range(last.self) : KeyOf(s) # <<last.frac, last.index>>}
       /\ Len(meta) = Len(last.self)

\* an add with overwrite has replaced a record by a different one, next to
\* a record with the same index and another fraction
Overwritten ==
    /\ last.op = "add" /\ last.flag /\ last.err = ""
    /\ HasKey(last.self, last.frac, last.index)
    /\ last.rec[1] \notin Range(last.self)
    /\ \E s \in Range(meta) : s.index = last.index /\ s.train_fraction # last.frac

\* C5: no two records of a registry have the same name, and save writes one
\* document entry per record.
NamesUnique ==
    /\ \A i, j \in 1..Len(meta) : i # j => meta[i].name # meta[j].name
    /\ (last.op = "save" /\ last.err = "") => Len(file.doc) = Len(meta)

\* the split save interns for the i-th record of the registry
SplitAt(i) ==
    IF meta[i].split # <<>> THEN meta[i].split[1]
    ELSE load_split(meta[i], docs).val[1].split[1]

\* C6: save gives the splits the ids 1..k in the order in which the sorted
\* records first show them: two records get the same id exactly when their
\* splits are equal, and the document stores the id of every record.
SplitsInterned ==
    (last.op = "save" /\ last.err = "")
    => /\ Len(last.ids) = Len(meta)
       /\ \A i, j \in 1..Len(meta) : (last.ids[i] = last.ids[j]) <=> (SplitAt(i) = SplitAt(j))
       /\ Range(last.ids) = 1..Cardinality({SplitAt(i) : i \in 1..Len(meta)})
       /\ \A i \in 1..Len(meta) :
             last.ids[i] <= 1 + Cardinality({last.ids[j] : j \in 1..(i - 1)})
       /\ \A i \in 1..Len(meta) :
             (\A j \in 1..Len(meta) : j # i => meta[j].name # meta[i].name)
             => \E m \in Range(file.doc) : m.name = meta[i].name /\ m.split = last.ids[i]

\* a save has interned the two different splits of two records
TwoSplitsInterned ==
    /\ last.op = "save" /\ last.err = ""
    /\ Len(meta) = 2 /\ last.ids = <<1, 2>>
    /\ meta[1].name # meta[2].name
    /\ Len(file.doc) = 2

\* C9: get reads the fraction at the slot of TrainingFraction and returns the
\* record with that fraction and the shuffle index, the only one there is;
\* it fails with ShuffleNotFound when the registry holds no such record.
GetReturnsMatch ==
    (last.op = "get" /\ last.slot \in 0..(Len(TrainingFraction) - 1))
    => LET frac == TrainingFraction[last.slot + 1]
           hits == {i \in 1..Len(meta) : KeyOf(meta[i]) = <<frac, last.index>>}
       IN IF hits = {}
          THEN last.err = "ShuffleNotFound" /\ last.rec = <<>>
          ELSE /\ last.err = ""
               /\ Cardinality(hits) = 1
               /\ \A i \in hits : last.rec = <<meta[i]>>

\* a get has returned the second record of the registry, which shares its
\* index with the first
GetFound ==
    /\ last.op = "get" /\ last.err = ""
    /\ Len(meta) = 2 /\ last.rec = <<meta[2]>>
    /\ meta[1].index = meta[2].index

Builders == {"load_split", "create", "update_metadata"}

SameIndexSets(a, b) ==
    Range(a.train_idx) = Range(b.train_idx) /\ Range(a.test_idx) = Range(b.test_idx)

NoRepeat(l) == \A i, j \in 1..Len(l) : i # j => l[i] # l[j]

ConstructionValidates ==
    last.op = "DataSplit"
    => \A k \in 1..2 :
         LET asc(l) == \A i, j \in 1..Len(l) : i < j => l[i] < l[j]
             valid == asc(split_in[k].train_idx) /\ asc(split_in[k].test_idx)
         IN /\ split_out[k].err = (IF valid THEN "" ELSE "InvalidSplit")
            /\ valid => split_out[k].val =
                            <<[train_indices |-> split_in[k].train_idx,
                               test_indices |-> split_in[k].test_idx]>>

\* the construction has rejected a repeated index in the test indices and
\* an unordered train sequence, and accepted ascending sequences
ConstructionRejected ==
    /\ last.op = "DataSplit"
    /\ split_in[1].train_idx = <<0>> /\ split_in[1].test_idx = <<MaxImage, MaxImage>>
    /\ split_out[1].err = "InvalidSplit"
    /\ split_in[2].train_idx = <<0, MaxImage>> /\ split_out[2].err = ""

\* the split-source file of the record s holds the indices of its split
DocHolds(s) ==
    /\ docs[DocPath(s.train_fraction, s.index)] # <<>>
    /\ LET d == docs[DocPath(s.train_fraction, s.index)][1]
       IN /\ NoRepeat(d.train_idx) /\ NoRepeat(d.test_idx)
          /\ Range(d.train_idx) = Range(s.split[1].train_indices)
          /\ Range(d.test_idx) = Range(s.split[1].test_indices)

\* the registry loaded has the records of the registry saved: the same
\* names, fractions, indices and engines, and with the splits loaded, the
\* split of every saved record whose split-source file holds it
Equivalent(loaded, saved, with_splits) ==
    /\ Len(loaded) = Len(saved)
    /\ {<<s.name, s.train_fraction, s.index, s.engine>> : s \in Range(loaded)}
         = {<<s.name, s.train_fraction, s.index, s.engine>> : s \in Range(saved)}
    /\ with_splits
         => \A s \in Range(saved), l \in Range(loaded) :
              (KeyOf(s) = KeyOf(l) /\ s.split # <<>> /\ DocHolds(s)) => l.split = s.split

\* C4: a load that follows the save of a registry built by add returns an
\* equivalent registry.
RoundTrip ==
    [][(last.op = "save" /\ last.err = "" /\ last'.op = "load" /\ last'.err = "")
        => Equivalent(meta', meta, last'.flag)]_vars

\* C10: with an empty prefix, get_shuffle_engine returns the engine that
\* the registry file stores for the fraction of the slot and the shuffle
\* index, whatever model folders exist, and fails when it stores none.
EmptyPrefixReadsRegistry ==
    (last.op = "get_shuffle_engine" /\ last.prefix = ""
        /\ last.slot \in 0..(Len(TrainingFraction) - 1))
    => LET frac == TrainingFraction[last.slot + 1]
           hits == {m \in Range(file.doc) :
                        m.train_fraction = frac /\ m.index = last.index}
       IN IF hits = {}
          THEN last.err # "" /\ last.engine = ""
          ELSE /\ last.err = ""
               /\ last.engine \in Engines
               /\ \A m \in hits : m.engine = aliases(last.engine)[1]

\* with an empty prefix, get_shuffle_engine has returned the engine of the
\* registry while the only model folder of the shuffle is another engine's
RegistryOverFolders ==
    /\ last.op = "get_shuffle_engine" /\ last.prefix = "" /\ last.err = ""
    /\ last.engine = "PYTORCH"
    /\ <<"", "TF">> \in last.model_folders
    /\ <<"", "PYTORCH">> \notin last.model_folders

\* the records the registry file stores for the shuffle of the last call
Hits ==
    {m \in Range(file.doc) :
        m.train_fraction = TrainingFraction[last.slot + 1] /\ m.index = last.index}

\* the engines whose model folder existed under the prefix of the last call
Matches == {e \in Engines : <<last.prefix, e>> \in last.model_folders}

\* the last call was get_shuffle_engine with a prefix, for a slot of
\* TrainingFraction
Probed ==
    /\ last.op = "get_shuffle_engine" /\ last.prefix # ""
    /\ last.slot \in 0..(Len(TrainingFraction) - 1)

\* C11 as stated: with a prefix under which one engine's model folder
\* exists, get_shuffle_engine returns that engine, whether or not the
\* registry holds a record of the shuffle.
SingleFolderDecides ==
    (Probed /\ Cardinality(Matches) = 1)
    => last.err = "" /\ last.engine \in Matches

\* C11: with a prefix under which one engine's model folder exists,
\* get_shuffle_engine returns that engine whatever engine the registry
\* stores for the shuffle; when the registry holds no record of the shuffle
\* it fails, with ShuffleNotFound when the registry file exists.
SingleFolderDecidesForRecord ==
    (Probed /\ Cardinality(Matches) = 1)
    => IF Hits = {}
       THEN /\ last.err # "" /\ last.engine = ""
            /\ file.exists => last.err = "ShuffleNotFound"
       ELSE last.err = "" /\ last.engine \in Matches

\* get_shuffle_engine has returned the engine of the only model folder under
\* the prefix while the registry stores another engine for the shuffle
FolderOverRegistry ==
    /\ Probed /\ last.err = ""
    /\ Matches = {last.engine}
    /\ \E m \in Hits : m.engine # aliases(last.engine)[1]

\* C12 as stated: with a prefix under which no engine's model folder exists,
\* get_shuffle_engine fails with NoEngineFound and returns no engine.
NoFolderNoEngineFound ==
    (Probed /\ Matches = {})
    => last.err = "NoEngineFound" /\ last.engine = ""

\* C12: with a prefix under which no engine's model folder exists,
\* get_shuffle_engine returns no engine: it fails with NoEngineFound when
\* the registry holds a record of the shuffle, whatever engine it stores,
\* and with ShuffleNotFound when the registry file holds none.
NoFolderFails ==
    (Probed /\ Matches = {})
    => /\ last.err # "" /\ last.engine = ""
       /\ Hits # {} => last.err = "NoEngineFound"
       /\ (Hits = {} /\ file.exists) => last.err = "ShuffleNotFound"

\* get_shuffle_engine has failed with NoEngineFound for a shuffle whose
\* engine the registry stores
NoFolderDespiteRecord ==
    /\ Probed /\ Matches = {}
    /\ last.err = "NoEngineFound"
    /\ \E m \in Hits : m.engine = "tensorflow"

\* the engines get_shuffle_engine can return for the arguments of the last
\* call on the registry file it left
Returnable ==
    get_shuffle_engine(file, docs, last.model_folders, last.slot, last.index, last.prefix)

\* C13 as stated: with a prefix under which several engines' model folders
\* exist, get_shuffle_engine never fails; it returns the engine of the
\* registry when that is among the engines found, the engine returned is
\* one of those found, and it is the only one the call can return.
SeveralFoldersNeverFail ==
    (Probed /\ Cardinality(Matches) > 1)
    => /\ last.err = "" /\ last.engine \in Matches
       /\ \A m \in Hits : Engine(m.engine).val \in Matches => last.engine = Engine(m.engine).val
       /\ Returnable.val = {last.engine}

\* C13: with a prefix under which several engines' model folders exist,
\* get_shuffle_engine fails when the registry holds no record of the
\* shuffle (ShuffleNotFound when the registry file exists); when it holds
\* one it does not fail, it returns the engine of the registry when that is
\* among the engines found, the engine returned is one of those found, and
\* it is the only one the call can return.
SeveralFoldersPreferRegistry ==
    (Probed /\ Cardinality(Matches) > 1)
    => IF Hits = {}
       THEN /\ last.err # "" /\ last.engine = ""
            /\ file.exists => last.err = "ShuffleNotFound"
       ELSE /\ last.err = "" /\ last.engine \in Matches
            /\ \A m \in Hits :
                  Engine(m.engine).val \in Matches => last.engine = Engine(m.engine).val
            /\ Returnable.val = {last.engine}

\* get_shuffle_engine has found the model folders of both engines under the
\* prefix and returned the engine of the registry
SeveralFoldersResolved ==
    /\ Probed /\ last.err = ""
    /\ Matches = Engines
    /\ \E m \in Hits : m.engine = aliases(last.engine)[1]

\* the split-source file at p holds no index twice
FileSplitValid(p) ==
    NoRepeat(docs[p][1].train_idx) /\ NoRepeat(docs[p][1].test_idx)

\* the registry m has one record per split-source file, with the fraction
\* and the index of the file, every one tagged TF
OnePerFile(m) ==
    /\ Len(m) = Cardinality(ExistingDocs(docs))
    /\ \A p \in ExistingDocs(docs) :
          Cardinality({i \in 1..Len(m) : KeyOf(m[i]) = p}) = 1
    /\ \A i \in 1..Len(m) : m[i].engine = "TF"

BothDone == procs # <<>> /\ \A p \in Processes : procs[p].pc = "done"

\* the place in the log of the step of the process p
LogPos(p, step) == CHOOSE i \in 1..Len(log) : log[i] = <<p, step>>

\* the process whose save came later, and the other one
Later == IF LogPos(1, "save") > LogPos(2, "save") THEN 1 ELSE 2

Earlier == 3 - Later

ArgsKey(p) == <<procs[p].args.train_fraction, procs[p].args.shuffle>>

FileHasKey(k) == \E m \in Range(file.doc) : <<m.train_fraction, m.index>> = k

DistinctNames(shuffles) ==
    \A i, j \in 1..Len(shuffles) : i # j => shuffles[i].name # shuffles[j].name

\* C15: when two processes have run update_metadata for different keys
\* without an error (on registries whose names are distinct), the registry
\* file is the document of the later writer: it holds the later writer's
\* shuffle, and it holds a record of the earlier writer's key only if the
\* later writer had loaded one; a later writer that loaded before the
\* earlier one saved had loaded the registry the earlier one loaded, so the
\* earlier writer's addition is lost, and one that loaded after it kept it.
LaterWriterWins ==
    (BothDone /\ \A p \in Processes : DistinctNames(procs[p].metadata))
    => /\ file.doc = save(procs[Later].metadata, docs).val.doc
       /\ FileHasKey(ArgsKey(Later))
       /\ FileHasKey(ArgsKey(Earlier)) <=> HasKey(procs[Later].loaded, ArgsKey(Earlier)[1], ArgsKey(Earlier)[2])
       /\ IF LogPos(Later, "load") < LogPos(Earlier, "save")
          THEN procs[Later].loaded = procs[Earlier].loaded
          ELSE HasKey(procs[Later].loaded, ArgsKey(Earlier)[1], ArgsKey(Earlier)[2])

\* both processes have completed without an error and the registry file
\* holds the shuffle of the later writer and not that of the earlier one
EarlierAdditionLost ==
    /\ BothDone
    /\ \A p \in Processes : DistinctNames(procs[p].metadata)
    /\ LogPos(Later, "load") < LogPos(Earlier, "save")
    /\ FileHasKey(ArgsKey(Later))
    /\ ~FileHasKey(ArgsKey(Earlier))

\* C16: get_shuffle_engine on an existing registry file leaves the file as
\* it is; without a registry file it creates the registry from the
\* split-source files, whatever the listing order, and writes its document
\* before it loads the registry, so that the outcome of the call is that of
\* the resolution on the file written; when create fails the call fails
\* with its error and writes no file.
BootstrapOnlyWithoutFile ==
    [][last'.op = "get_shuffle_engine"
        => IF file.exists THEN file' = file
           ELSE \A l \in Listings(ExistingDocs(docs)) :
                  LET m == create(l, docs) IN
                  IF m.err # "" THEN last'.err = m.err /\ file' = file
                  ELSE /\ file' = write_document(file, save(m.val, docs).val.doc)
                       /\ LET r == get_shuffle_engine(file', docs, last'.model_folders,
                                                      last'.slot, last'.index, last'.prefix)
                          IN /\ last'.err = r.err
                             /\ r.err = "" => last'.engine \in r.val]_vars

\* get_shuffle_engine has found no registry file, written the registry of
\* the split-source files and returned the engine it stores
BootstrappedThenResolved ==
    /\ last.op = "get_shuffle_engine" /\ ~last.idle
    /\ last.err = "" /\ last.engine = "TF"
    /\ file.exists /\ file.doc # <<>>

\* C17: save of a registry with a record that has no split loaded and no
\* split-source file fails with SplitFileMissing and leaves the registry
\* file as it was, absent or with its previous document; update_metadata on
\* a registry file with a shuffle whose split-source file is gone fails
\* with SplitFileMissing and leaves the registry file as it was.
SaveAllOrNothing ==
    [][/\ (last'.op = "save"
            /\ \E i \in 1..Len(meta) :
                  meta[i].split = <<>> /\ docs[DocPath(meta[i].train_fraction, meta[i].index)] = <<>>)
          => (last'.err = "SplitFileMissing" /\ file' = file)
       /\ (last'.op = "update_metadata" /\ file.exists
            /\ \E m \in Range(file.doc) : docs[DocPath(m.train_fraction, m.index)] = <<>>)
          => (last'.err = "SplitFileMissing" /\ file' = file)]_vars

\* a save has failed on a record without split-source file, after another
\* record, and the registry file holds the document of an earlier save
PreviousDocumentKept ==
    /\ last.op = "save" /\ last.err = "SplitFileMissing"
    /\ file.exists /\ Len(file.doc) = 1 /\ Len(meta) = 2
    /\ meta[1].split # <<>> /\ meta[2].split = <<>>

====
